---- MODULE Spec2Model ----
(***************************************************************************)
(* Loan amortization engine: compute_schedule of                           *)
(* Loan_Calculator_project/streamlit_app.py.                               *)
(*                                                                         *)
(* Amounts are Python floats in the source.  Here they are exact rational  *)
(* numbers <<num, den>> in lowest terms (den > 0), so the relative error   *)
(* of binary64 (about 1e-16) is abstracted away; what is kept is the       *)
(* rounding to 2 decimals done at record creation, which yields integer    *)
(* numbers of cents.  Where a value lies exactly halfway between two       *)
(* cents, the binary64 value the source rounds lies on either side of it,  *)
(* so how such ties fall is an input of the run (variable tie): all up,    *)
(* all down, or alternating with the parity of the cent below.             *)
(***************************************************************************)
EXTENDS Integers, Sequences, FiniteSets

\* ---------------------------------------------------------------- bounds
\* largest loan duration (years) the model enumerates
MaxYears == 2
\* (1 + r)^n is computed only when numerator and denominator stay below this
MaxPow == 5000

\* ------------------------------------------------------ rational numbers
RECURSIVE GCD(_, _)
GCD(a, b) == IF b = 0 THEN a ELSE GCD(b, a % b)

Abs(x) == IF x < 0 THEN -x ELSE x

Norm(n, d) ==
    LET g == GCD(Abs(n), Abs(d))
        s == IF d < 0 THEN -1 ELSE 1
    IN  <<s * (n \div g), s * (d \div g)>>

Rat(n, d) == Norm(n, d)
Zero == <<0, 1>>
One == <<1, 1>>

Add(a, b) ==
    LET g == GCD(a[2], b[2])
    IN  Norm(a[1] * (b[2] \div g) + b[1] * (a[2] \div g), (a[2] \div g) * b[2])

Neg(a) == <<-a[1], a[2]>>
Sub(a, b) == Add(a, Neg(b))

Mul(a, b) ==
    LET g1 == GCD(Abs(a[1]), b[2])
        g2 == GCD(Abs(b[1]), a[2])
    IN  IF a[1] = 0 \/ b[1] = 0 THEN Zero
        ELSE <<(a[1] \div g1) * (b[1] \div g2), (a[2] \div g2) * (b[2] \div g1)>>

Inv(a) == IF a[1] < 0 THEN <<-a[2], -a[1]>> ELSE <<a[2], a[1]>>
Div(a, b) == Mul(a, Inv(b))

Less(a, b) == Sub(a, b)[1] < 0
Leq(a, b) == Sub(a, b)[1] <= 0
Min(a, b) == IF Leq(a, b) THEN a ELSE b
Max(a, b) == IF Leq(a, b) THEN b ELSE a

RECURSIVE Pow(_, _)
Pow(a, n) == IF n = 0 THEN One ELSE Mul(a, Pow(a, n - 1))

\* b^n <= lim, decided without computing past lim
RECURSIVE PowFits(_, _, _, _)
PowFits(b, n, acc, lim) ==
    IF n <= 0 THEN TRUE
    ELSE IF acc * b > lim THEN FALSE
    ELSE PowFits(b, n - 1, acc * b, lim)

\* ------------------------------------------------------------ the inputs
Compoundings == {"Monthly", "Quarterly", "Yearly"}
PrincipalChoices == {Zero, Rat(1, 50), Rat(1000, 1)}
RateChoices == {Zero, Rat(10, 1), Rat(1200, 1)}
YearChoices == (0 - 1)..MaxYears
ExtraChoices == {Zero, Rat(50, 1)}
FeesFlatChoices == {Zero, Rat(5, 1)}
FeesPctChoices == {Zero, Rat(10, 1)}
InsuranceChoices == {Zero, Rat(10, 1)}
TieChoices == {"up", "down", "even", "odd"}

VARIABLES
    args,                \* the ten parameters of the call (start_date is day 0)
    tie,                 \* how a value halfway between two cents is rounded
    pc,                  \* "start", "loop", "summary", "done"
    periods_per_year, n, principal_with_fees, r, base_payment,
    sched, bal, cumulative, d, k,
    interest, principal_comp, extra,
    summary

vars == <<args, tie, pc, periods_per_year, n, principal_with_fees, r,
          base_payment, sched, bal, cumulative, d, k, interest,
          principal_comp, extra, summary>>

\* round(x, 2), as a whole number of cents
Round2(x) ==
    LET q == x[1] \div x[2]
        t == 100 * (x[1] % x[2])
        c == t \div x[2]
        twice == 2 * (t % x[2])
        up == IF twice > x[2] THEN 1
              ELSE IF twice < x[2] THEN 0
              ELSE CASE tie = "up" -> 1
                     [] tie = "down" -> 0
                     [] tie = "even" -> c % 2
                     [] tie = "odd" -> 1 - (c % 2)
    IN  100 * q + c + up

\* ------------------------------------------------------------ lines 33-48
PeriodsPerYear(compounding) ==
    CASE compounding = "Monthly" -> 12
      [] compounding = "Quarterly" -> 4
      [] compounding = "Yearly" -> 1

IntMax(a, b) == IF a >= b THEN a ELSE b

\* a bug: the term is not floored at one period
NumPeriodsUnclamped(years, ppy) == years * ppy

NumPeriods(years, ppy) == IntMax(1, years * ppy)

PrincipalWithFees(principal, fees_flat, fees_pct) ==
    Add(Add(principal, fees_flat), Mul(principal, Div(fees_pct, Rat(100, 1))))

PeriodRate(annual_rate_pct, ppy) ==
    Div(Div(annual_rate_pct, Rat(100, 1)), Rat(ppy, 1))

FlatPayment(pwf, annual_rate_pct, years, np) ==
    LET total_interest_flat ==
            Mul(Mul(pwf, Div(annual_rate_pct, Rat(100, 1))), Rat(years, 1))
    IN  Div(Add(pwf, total_interest_flat), Rat(np, 1))

\* a bug: the annuity formula divides by (1+r)^n instead of (1+r)^n - 1
AnnuityPaymentInterestOnly(pwf, rate, np) ==
    IF rate = Zero THEN Div(pwf, Rat(np, 1))
    ELSE LET growth == Pow(Add(One, rate), np)
         IN  Div(Mul(Mul(pwf, rate), growth), growth)

\* a bug: the straight-line payment divides by one period too many
AnnuityPaymentOffByOne(pwf, rate, np) ==
    IF rate = Zero THEN Div(pwf, Rat(np + 1, 1))
    ELSE LET growth == Pow(Add(One, rate), np)
         IN  Div(Mul(Mul(pwf, rate), growth), Sub(growth, One))

AnnuityPayment(pwf, rate, np) ==
    IF rate = Zero THEN Div(pwf, Rat(np, 1))
    ELSE LET growth == Pow(Add(One, rate), np)
         IN  Div(Mul(Mul(pwf, rate), growth), Sub(growth, One))

BasePayment(flat_interest, pwf, annual_rate_pct, years, np, rate) ==
    IF flat_interest THEN FlatPayment(pwf, annual_rate_pct, years, np)
    ELSE AnnuityPayment(pwf, rate, np)

\* the quantities fixed before the loop, for parameters a
Derived(a) ==
    LET ppy == PeriodsPerYear(a.compounding)
        np == NumPeriods(a.years, ppy)
        pwf == PrincipalWithFees(a.principal, a.fees_flat, a.fees_pct)
        rate == PeriodRate(a.annual_rate_pct, ppy)
    IN  [periods_per_year |-> ppy, n |-> np, principal_with_fees |-> pwf,
         r |-> rate,
         base_payment |-> BasePayment(a.flat_interest, pwf, a.annual_rate_pct,
                                      a.years, np, rate),
         flat_interest |-> a.flat_interest,
         extra_per_period |-> a.extra_per_period,
         insurance_per_period |-> a.insurance_per_period]

\* ------------------------------------------------------------ lines 55-90
\* a bug: the flat method charges interest on the balance as well
InterestOnBalance(flat_interest, pwf, balance, rate) == Mul(balance, rate)

Interest(flat_interest, pwf, balance, rate) ==
    IF flat_interest THEN Mul(pwf, rate) ELSE Mul(balance, rate)

\* a bug: the principal component is not clamped to the balance
PrincipalCompUnclamped(payment, int, balance) == Sub(payment, int)

PrincipalComp(payment, int, balance) == Min(Sub(payment, int), balance)

\* a bug: the extra payment is not clamped to what is left
ExtraPaidUnclamped(extra_per_period, balance, pcomp) == extra_per_period

ExtraPaid(extra_per_period, balance, pcomp) ==
    Min(extra_per_period, Max(Zero, Sub(balance, pcomp)))

PaymentThisPeriod(pcomp, int, ex, insurance) ==
    Add(Add(Add(pcomp, int), ex), insurance)

\* a bug: the extra payment is added to the balance
NewBalanceAddsExtra(balance, pcomp, ex) ==
    Max(Zero, Add(Sub(balance, pcomp), ex))

NewBalance(balance, pcomp, ex) == Max(Zero, Sub(Sub(balance, pcomp), ex))

NextDate(ppy, day) ==
    IF ppy = 12 THEN day + 30
    ELSE IF ppy = 4 THEN day + 91
    ELSE day + 365

\* a bug: the loop breaks on bal < 0, which max(0.0, ...) never yields
PaidOffStrict(balance) == Less(balance, Zero)

PaidOff(balance) == Leq(balance, Zero)

\* one pass through the loop body, from loop state l under derived values c
LoopBody(c, l) ==
    LET int == Interest(c.flat_interest, c.principal_with_fees, l.bal, c.r)
        pcomp == PrincipalComp(c.base_payment, int, l.bal)
        ex == ExtraPaid(c.extra_per_period, l.bal, pcomp)
        pay == PaymentThisPeriod(pcomp, int, ex, c.insurance_per_period)
        nbal == NewBalance(l.bal, pcomp, ex)
        ncum == Add(l.cumulative, pay)
        row == [Period |-> l.k, Date |-> l.d,
                Payment |-> Round2(c.base_payment),
                Principal |-> Round2(pcomp),
                Interest |-> Round2(int),
                Extra |-> Round2(ex),
                Insurance |-> Round2(c.insurance_per_period),
                Balance |-> Round2(nbal),
                Cumulative_Paid |-> Round2(ncum)]
    IN  [k |-> l.k, bal |-> nbal, cumulative |-> ncum,
         d |-> NextDate(c.periods_per_year, l.d),
         sched |-> Append(l.sched, row),
         interest |-> int, principal_comp |-> pcomp, extra |-> ex]

\* ----------------------------------------------------------- lines 92-111
RECURSIVE SumCol(_, _, _)
SumCol(s, col, i) == IF i = 0 THEN 0 ELSE s[i][col] + SumCol(s, col, i - 1)

ColumnSum(s, col) == SumCol(s, col, Len(s))

Summarize(s, pwf) ==
    IF s = <<>>
    THEN [EMI_Payment |-> 0, Total_Interest |-> 0, Total_Paid |-> 0,
          Tenure |-> 0, Last_Payment_Date |-> 0, Principal_incl_fees |-> 0,
          Total_Extra |-> 0, Total_Insurance |-> 0]
    ELSE [EMI_Payment |-> s[1].Payment,
          Total_Interest |-> ColumnSum(s, "Interest"),
          Total_Extra |-> ColumnSum(s, "Extra"),
          Total_Insurance |-> ColumnSum(s, "Insurance"),
          Total_Paid |-> ColumnSum(s, "Payment") + ColumnSum(s, "Extra")
                         + ColumnSum(s, "Insurance"),
          Tenure |-> Len(s),
          Last_Payment_Date |-> s[Len(s)].Date,
          Principal_incl_fees |-> Round2(pwf)]

\* ------------------------------------------------- the call as a function
LoopStart(c) ==
    [k |-> 1, bal |-> c.principal_with_fees, cumulative |-> Zero, d |-> 0,
     sched |-> <<>>, interest |-> Zero, principal_comp |-> Zero, extra |-> Zero]

RECURSIVE RunLoop(_, _)
RunLoop(c, l) ==
    IF l.k > c.n THEN l
    ELSE LET nl == LoopBody(c, l)
         IN  IF PaidOff(nl.bal) THEN nl
             ELSE RunLoop(c, [nl EXCEPT !.k = nl.k + 1])

compute_schedule(a) ==
    LET c == Derived(a)
        l == RunLoop(c, LoopStart(c))
    IN  [sched |-> l.sched, summary |-> Summarize(l.sched, c.principal_with_fees)]

\* ------------------------------------------------------ the enumerated calls
\* (1 + r)^n stays within MaxPow, or is never computed
Representable(a) ==
    LET ppy == PeriodsPerYear(a.compounding)
        g == Add(One, PeriodRate(a.annual_rate_pct, ppy))
    IN  \/ a.flat_interest
        \/ a.annual_rate_pct = Zero
        \/ /\ PowFits(g[1], NumPeriods(a.years, ppy), 1, MaxPow)
           /\ PowFits(g[2], NumPeriods(a.years, ppy), 1, MaxPow)

Inputs ==
    {a \in [principal : PrincipalChoices, annual_rate_pct : RateChoices,
            years : YearChoices, compounding : Compoundings,
            flat_interest : BOOLEAN, extra_per_period : ExtraChoices,
            fees_flat : FeesFlatChoices, fees_pct : FeesPctChoices,
            insurance_per_period : InsuranceChoices] : Representable(a)}

NoSummary == [Tenure |-> -1]

Init ==
    /\ args \in Inputs
    /\ tie \in TieChoices
    /\ pc = "start"
    /\ periods_per_year = 0 /\ n = 0
    /\ principal_with_fees = Zero /\ r = Zero /\ base_payment = Zero
    /\ sched = <<>> /\ bal = Zero /\ cumulative = Zero /\ d = 0 /\ k = 0
    /\ interest = Zero /\ principal_comp = Zero /\ extra = Zero
    /\ summary = NoSummary

\* lines 33-53: derive the constants of the run and set up the loop
Setup ==
    /\ pc = "start"
    /\ LET c == Derived(args)
       IN  /\ periods_per_year' = c.periods_per_year
           /\ n' = c.n
           /\ principal_with_fees' = c.principal_with_fees
           /\ r' = c.r
           /\ base_payment' = c.base_payment
           /\ bal' = c.principal_with_fees
    /\ sched' = <<>> /\ cumulative' = Zero /\ d' = 0 /\ k' = 1
    /\ pc' = "loop"
    /\ UNCHANGED <<args, tie, interest, principal_comp, extra, summary>>

Current ==
    [periods_per_year |-> periods_per_year, n |-> n,
     principal_with_fees |-> principal_with_fees, r |-> r,
     base_payment |-> base_payment, flat_interest |-> args.flat_interest,
     extra_per_period |-> args.extra_per_period,
     insurance_per_period |-> args.insurance_per_period]

\* lines 55-90: one iteration of the for loop, its break included
LoopIter ==
    /\ pc = "loop"
    /\ k <= n
    /\ LET nl == LoopBody(Current,
                          [k |-> k, bal |-> bal, cumulative |-> cumulative,
                           d |-> d, sched |-> sched, interest |-> interest,
                           principal_comp |-> principal_comp, extra |-> extra])
       IN  /\ bal' = nl.bal
           /\ cumulative' = nl.cumulative
           /\ d' = nl.d
           /\ sched' = nl.sched
           /\ interest' = nl.interest
           /\ principal_comp' = nl.principal_comp
           /\ extra' = nl.extra
           /\ IF PaidOff(nl.bal)
              THEN pc' = "summary" /\ k' = k
              ELSE pc' = "loop" /\ k' = k + 1
    /\ UNCHANGED <<args, tie, periods_per_year, n, principal_with_fees, r,
                   base_payment, summary>>

\* line 55: range(1, n + 1) is exhausted
LoopExit ==
    /\ pc = "loop"
    /\ k > n
    /\ pc' = "summary"
    /\ UNCHANGED <<args, tie, periods_per_year, n, principal_with_fees, r,
                   base_payment, sched, bal, cumulative, d, k, interest,
                   principal_comp, extra, summary>>

\* lines 92-111: the summary, and the return
Summary ==
    /\ pc = "summary"
    /\ summary' = Summarize(sched, principal_with_fees)
    /\ pc' = "done"
    /\ UNCHANGED <<args, tie, periods_per_year, n, principal_with_fees, r,
                   base_payment, sched, bal, cumulative, d, k, interest,
                   principal_comp, extra>>

Next == Setup \/ LoopIter \/ LoopExit \/ Summary

Spec == Init /\ [][Next]_vars

\* ------------------------------------------------------------ the claims
Done == pc = "done"

\* the parameter sets the interface calls valid
Valid(a) ==
    /\ Leq(Zero, a.principal) /\ Leq(Zero, a.annual_rate_pct)
    /\ a.years >= 1
    /\ Leq(Zero, a.extra_per_period) /\ Leq(Zero, a.fees_flat)
    /\ Leq(Zero, a.fees_pct) /\ Leq(Zero, a.insurance_per_period)

Last(s) == s[Len(s)]

\* x (a whole number of cents) lies within tol cents of the amount y
WithinCents(x, y, tol) ==
    LET diff == Sub(Rat(x, 1), Mul(Rat(100, 1), y))
    IN  Leq(diff, Rat(tol, 1)) /\ Leq(Rat(0 - tol, 1), diff)

\* C1: for every valid parameter set the balance of the last record is 0
\* within 0.01, in the record and before rounding.
C1_FinalBalanceZero ==
    (Done /\ Valid(args)) =>
        /\ sched # <<>>
        /\ Abs(Last(sched).Balance) <= 1
        /\ Leq(bal, Rat(1, 100))

C1_Witness ==
    /\ Done /\ Valid(args)
    /\ ~args.flat_interest /\ Less(Zero, args.annual_rate_pct)
    /\ Len(sched) = n /\ n > 1
    /\ sched[1].Balance > 1 /\ Last(sched).Balance = 0

\* C2: for every valid parameter set Cumulative_Paid of the last record
\* equals the summary's Total Paid.
C2_CumulativeEqualsTotalPaid ==
    (Done /\ Valid(args)) =>
        Last(sched).Cumulative_Paid = summary.Total_Paid

PrincipalAndExtra == ColumnSum(sched, "Principal") + ColumnSum(sched, "Extra")

\* C3 as stated: the recorded Principal + Extra of all records sum to the
\* adjusted principal within 0.01.
C3_SumWithinOneCent ==
    (Done /\ Valid(args)) =>
        WithinCents(PrincipalAndExtra, principal_with_fees, 1)

\* C3 as amended: the recorded Principal + Extra of all records sum to the
\* adjusted principal within 0.01 per record (two fields, each rounded to the
\* nearest cent).
C3_SumWithinOneCentPerRecord ==
    (Done /\ Valid(args)) =>
        WithinCents(PrincipalAndExtra, principal_with_fees, Len(sched))

C3_Witness ==
    /\ Done /\ Valid(args)
    /\ Less(Zero, args.extra_per_period)
    /\ Len(sched) > 1
    /\ ~WithinCents(PrincipalAndExtra, principal_with_fees, 1)

PeriodsInOrder == \A i \in 1..Len(sched) : sched[i].Period = i

\* how far the call has come: strictly larger after every step
Progress ==
    CASE pc = "start" -> 0
      [] pc = "loop" -> k
      [] pc = "summary" -> n + 2
      [] pc = "done" -> n + 3

\* the guards of the four steps: some step can be taken
CanStep ==
    \/ pc = "start"
    \/ pc = "loop" /\ k <= n
    \/ pc = "loop" /\ k > n
    \/ pc = "summary"

\* C4: for all parameter sets, a term of zero or fewer years included, the
\* call terminates (it can always take a step until it has returned, and
\* every step advances a bounded measure) with at least 1 and at most n
\* records, numbered 1, 2, ... in order, and the summary is not the one of an
\* empty schedule.
C4_TerminatesWithRecords ==
    /\ [](Done \/ CanStep)
    /\ [][Progress' > Progress]_vars
    /\ [](Progress <= n + 3)
    /\ [](Done => /\ Len(sched) >= 1 /\ Len(sched) <= n
                  /\ PeriodsInOrder
                  /\ summary.Tenure = Len(sched)
                  /\ summary.Tenure >= 1)

C4_Witness ==
    /\ Done /\ args.years <= 0
    /\ n = 1 /\ Len(sched) = 1 /\ summary.Tenure = 1

ZeroRate == Valid(args) /\ args.annual_rate_pct = Zero /\ ~args.flat_interest

StraightLine == Div(principal_with_fees, Rat(n, 1))

Reducing ==
    /\ Valid(args) /\ ~args.flat_interest
    /\ Less(Zero, args.annual_rate_pct)
    /\ Less(Zero, principal_with_fees)
    /\ Less(Zero, args.extra_per_period)

\* the same call without the extra payment
NoExtra == compute_schedule([args EXCEPT !.extra_per_period = Zero])

\* C6 as stated: with an extra payment a reducing-balance loan has no more
\* records and no larger Total Interest than without, and a strictly smaller
\* Total Interest whenever it has fewer records.
C6_ExtraLowersInterest ==
    (Done /\ Reducing) =>
        /\ Len(sched) <= Len(NoExtra.sched)
        /\ summary.Total_Interest <= NoExtra.summary.Total_Interest
        /\ Len(sched) < Len(NoExtra.sched) =>
               summary.Total_Interest < NoExtra.summary.Total_Interest

\* C6 as amended: with an extra payment a reducing-balance loan has no more
\* records and no larger Total Interest than without; Total Interest is
\* strictly smaller whenever a record the extra payment saved carries a
\* recorded Interest above 0.00.
C6_ExtraLowersRecordedInterest ==
    (Done /\ Reducing) =>
        /\ Len(sched) <= Len(NoExtra.sched)
        /\ summary.Total_Interest <= NoExtra.summary.Total_Interest
        /\ (\E i \in (Len(sched) + 1)..Len(NoExtra.sched) :
                NoExtra.sched[i].Interest > 0) =>
               summary.Total_Interest < NoExtra.summary.Total_Interest

C6_Witness ==
    /\ Done /\ Reducing
    /\ Len(sched) > 1
    /\ Len(sched) < Len(NoExtra.sched)
    /\ summary.Total_Interest < NoExtra.summary.Total_Interest

FlatNoExtra ==
    /\ Valid(args) /\ args.flat_interest /\ args.extra_per_period = Zero

SimpleInterest ==
    Mul(Mul(principal_with_fees, Div(args.annual_rate_pct, Rat(100, 1))),
        Rat(args.years, 1))

\* C7 as stated: flat interest, no extra payment: every record's Interest is
\* adjusted principal x period rate, there are exactly n records, and Total
\* Interest is adjusted principal x annual rate x years.
C7_FlatInterestExact ==
    (Done /\ FlatNoExtra) =>
        /\ \A i \in 1..Len(sched) :
               sched[i].Interest = Round2(Mul(principal_with_fees, r))
        /\ Len(sched) = n
        /\ WithinCents(summary.Total_Interest, SimpleInterest, 1)

\* C7 as amended: flat interest, no extra payment: every record's Interest is
\* adjusted principal x period rate rounded to cents; there are exactly n
\* records when the adjusted principal is positive and one when it is 0;
\* Total Interest is the sum of the rounded figures, within half a cent per
\* record of adjusted principal x annual rate x years.
C7_FlatInterestRounded ==
    (Done /\ FlatNoExtra) =>
        /\ \A i \in 1..Len(sched) :
               sched[i].Interest = Round2(Mul(principal_with_fees, r))
        /\ Less(Zero, principal_with_fees) => Len(sched) = n
        /\ principal_with_fees = Zero => Len(sched) = 1
        /\ summary.Total_Interest
               = Len(sched) * Round2(Mul(principal_with_fees, r))
        /\ WithinCents(2 * summary.Total_Interest,
                       Mul(Rat(2, 1), SimpleInterest), Len(sched))

C7_Witness ==
    /\ Done /\ FlatNoExtra
    /\ Less(Zero, args.annual_rate_pct)
    /\ Len(sched) = n /\ n > 1
    /\ ~WithinCents(summary.Total_Interest, SimpleInterest, 1)

\* C9: for every valid parameter set, in every period the principal
\* component is at most the balance at the start of the period and the extra
\* payment at most what is left after it, so the balance is never negative
\* and never increases, in the loop and in the records.
C9_ComponentsWithinBalance ==
    [][(Valid(args) /\ sched' # sched /\ pc = "loop") =>
           /\ Leq(principal_comp', bal)
           /\ Leq(extra', Sub(bal, principal_comp'))
           /\ Leq(Zero, bal') /\ Leq(bal', bal)
           /\ Last(sched').Balance >= 0
           /\ sched # <<>> => Last(sched').Balance <= Last(sched).Balance]_vars

C9_Witness ==
    /\ Done /\ Valid(args)
    /\ Len(sched) > 1
    /\ Less(Zero, extra) /\ Less(extra, args.extra_per_period)
    /\ Less(Zero, principal_comp)

AllZero(row) ==
    /\ row.Interest = 0 /\ row.Principal = 0
    /\ row.Extra = 0 /\ row.Balance = 0

\* C10 as stated: no record follows a record whose Balance is 0, so every
\* record but the last has Balance > 0; with adjusted principal 0 there is
\* exactly one record, with Interest, Principal, Extra and Balance all 0.
C10_NoRecordAfterZeroBalance ==
    /\ \A i \in 1..(Len(sched) - 1) : sched[i].Balance > 0
    /\ (Done /\ principal_with_fees = Zero) =>
           Len(sched) = 1 /\ AllZero(sched[1])

\* C10 as amended: no record follows a period that left the unrounded balance
\* at 0, so every record but the last was produced with a balance > 0 left
\* (its recorded Balance may still round to 0.00); with adjusted principal 0
\* there is exactly one record, with Interest, Principal, Extra and Balance
\* all 0.
C10_StopsAtZeroBalance ==
    /\ [][(sched' # sched /\ sched # <<>>) => Less(Zero, bal)]_vars
    /\ [](\A i \in 1..(Len(sched) - 1) : sched[i].Balance >= 0)
    /\ []((Done /\ principal_with_fees = Zero) =>
              Len(sched) = 1 /\ AllZero(sched[1]))

C10_Witness ==
    /\ Done /\ Len(sched) > 2
    /\ bal = Zero
    /\ \E i \in 1..(Len(sched) - 1) : sched[i].Balance = 0

====
